---- MODULE Spec2Model ----
(***************************************************************************)
(* The in-memory user store of the Iris web server (package main:          *)
(* userCache, CacheMutex, createUser, getUser, deleteUser).  Every inbound *)
(* request runs its handler in a goroutine of its own; the handlers share  *)
(* the map userCache and the sync.RWMutex CacheMutex.  A handler is a      *)
(* sequence of steps, one per shared-state operation of its code, so that  *)
(* the interleavings of concurrent requests are the behaviours of Spec.    *)
(* SeqSpec is the same program driven by a client that waits for each      *)
(* response before it sends the next request.                              *)
(***************************************************************************)
EXTENDS Integers, Sequences, FiniteSets, Bags, TLC

(* Requests that are handled at the same time.                             *)
NProc == 2
(* Requests of one run: of concurrent clients, and of a sequential client. *)
MaxReq == 3
MaxSeq == 4
(* Largest entity id a client sends.                                       *)
MaxId == 2

\* The goroutines that handle requests; a goroutine that has returned makes
\* room for the next request.
ProcSet == 1..NProc

VARIABLES
    userCache,   \* map[int]User: a function whose domain is the set of keys
    CacheMutex,  \* sync.RWMutex: [writer: holder of Lock or 0, readers: holders of RLock]
    pc,          \* position of each handler goroutine
    req,         \* the request each goroutine was dispatched with
    id,          \* handler local: id (getUser, deleteUser)
    user,        \* handler local: user (createUser, getUser)
    ok,          \* handler local: ok (getUser, deleteUser)
    resp,        \* the response written so far: status (0: none yet) and body
    crashed,     \* the runtime threw a fatal error: the process is gone
    ops,         \* history: the lock and map operations each handler has performed
    budget,      \* the number of requests the clients send in this run
    served,      \* history: the number of requests dispatched so far
    sent,        \* history: the entities of the Create requests dispatched so far
    ctx,         \* history: what each request in flight has run together with
    recent,      \* history (SeqSpec): the successful Creates that came last, in order
    idState,     \* history (SeqSpec): per id, which request on it came last
    view,        \* RitualView: the fields of its _RitualViewState, and the timers it made
    completions, \* RitualView: the number of invocations of component.onComplete
    taps,        \* RitualView, history: the number of taps received
    tappedTerminal, \* RitualView, history: a tap was received in the terminal phase
    jobs,        \* worker pool: the channel jobs, [buf: what it holds, closed]
    results,     \* worker pool: the channel results
    wg,          \* worker pool: the counter of the sync.WaitGroup
    mpc,         \* worker pool: position of workerPoolDemo
    mi,          \* worker pool: the loop variable of workerPoolDemo (w, then j)
    wpc,         \* worker pool: position of each worker
    wj,          \* worker pool: the job each worker holds (j)
    cpc,         \* worker pool: position of the goroutine that closes results
    collected,   \* worker pool: the results workerPoolDemo has collected, a bag
    taken,       \* worker pool, history: the workers that took each job
    panicked     \* worker pool: a goroutine panicked

prog == <<userCache, CacheMutex, pc, req, id, user, ok, resp, crashed, ops>>
hist == <<budget, served, sent, ctx, recent, idState>>
ritual == <<view, completions, taps, tappedTerminal>>
pool == <<jobs, results, wg, mpc, mi, wpc, wj, cpc, collected, taken, panicked>>
vars == <<prog, hist, ritual, pool>>

(***************************************************************************)
(* Data                                                                    *)
(***************************************************************************)

\* type User struct { ID int; Name string `json:"name"`; Age int }
User(i, n, a) == [ID |-> i, Name |-> n, Age |-> a]

\* The zero value of User: what `var user User` and a failed map lookup yield.
ZeroUser == User(0, "", 0)

\* A JSON value of a request body: a number, a string, or the key is missing.
Num(n) == [t |-> "num", n |-> n, s |-> ""]
Str(s) == [t |-> "str", n |-> 0, s |-> s]
Absent == [t |-> "absent", n |-> 0, s |-> ""]

\* A request body: wf is whether the bytes are well-formed JSON at all.
Body(i, n, a) == [wf |-> TRUE, id |-> i, name |-> n, age |-> a]
NoBody == [wf |-> FALSE, id |-> Absent, name |-> Absent, age |-> Absent]

\* The body a client sends for the entity e.
BodyOf(e) == Body(Num(e.ID), Str(e.Name), Num(e.Age))

\* The entities clients create: one for each id of 1..MaxId, and a second one
\* for id 1 that differs from the first in both name and age.
ValidEntities == {User(i, "Alice", 30) : i \in 1..MaxId} \cup {User(1, "Bob", 40)}

\* Bodies createUser must reject.
BadBodies ==
    { NoBody,                                   \* not JSON
      Body(Str("x"), Str("Alice"), Num(30)),    \* id of the wrong type
      Body(Num(0), Str("X"), Num(5)),           \* id zero
      Body(Absent, Str("Alice"), Num(30)),      \* id missing
      Body(Num(1), Str(""), Num(30)),           \* name empty
      Body(Num(1), Str("Alice"), Num(0)) }      \* age zero

Bodies == {BodyOf(e) : e \in ValidEntities} \cup BadBodies

\* Path values of {id}: base-10 integers, and values that are not.
Digit(n) == CASE n = 0 -> "0" [] n = 1 -> "1" [] n = 2 -> "2" [] n = 3 -> "3" [] n = 4 -> "4"
              [] n = 5 -> "5" [] n = 6 -> "6" [] n = 7 -> "7" [] n = 8 -> "8" [] n = 9 -> "9"
NumericPaths == {<<Digit(n)>> : n \in 1..(MaxId + 1)} \cup {<<"+", Digit(MaxId + 1)>>}
NonNumericPaths == {<<"a">>, <<"1", "a">>, <<"-">>}
Paths == NumericPaths \cup NonNumericPaths

Request(op, path, body) == [op |-> op, path |-> path, body |-> body]
NoRequest == Request("none", <<>>, NoBody)

\* Response bodies: none, the text of http.Error, or the JSON of a User.
NoText == [kind |-> "none", text |-> "", ID |-> 0, name |-> "", Age |-> 0]
Text(s) == [kind |-> "text", text |-> s, ID |-> 0, name |-> "", Age |-> 0]
Json(u) == [kind |-> "json", text |-> "", ID |-> u.ID, name |-> u.Name, Age |-> u.Age]

Response(status, body) == [status |-> status, body |-> body]

(***************************************************************************)
(* Pure functions                                                          *)
(***************************************************************************)

Digits == {"0", "1", "2", "3", "4", "5", "6", "7", "8", "9"}

DigitVal(c) ==
    CASE c = "0" -> 0 [] c = "1" -> 1 [] c = "2" -> 2 [] c = "3" -> 3 [] c = "4" -> 4
      [] c = "5" -> 5 [] c = "6" -> 6 [] c = "7" -> 7 [] c = "8" -> 8 [] c = "9" -> 9

RECURSIVE DigitsVal(_)
DigitsVal(s) ==
    IF s = <<>> THEN 0
    ELSE DigitsVal(SubSeq(s, 1, Len(s) - 1)) * 10 + DigitVal(s[Len(s)])

\* A mutation of Atoi that, like C's atoi, converts the leading digits and
\* ignores what follows them.
AtoiPrefix(s) ==
    LET signed == Len(s) > 0 /\ s[1] \in {"+", "-"}
        rest == IF signed THEN Tail(s) ELSE s
        n == IF \E i \in 1..Len(rest) : rest[i] \notin Digits
             THEN (CHOOSE i \in 1..Len(rest) : rest[i] \notin Digits /\ \A j \in 1..(i - 1) : rest[j] \in Digits) - 1
             ELSE Len(rest)
        v == DigitsVal(SubSeq(rest, 1, n))
    IN  IF n = 0 THEN [err |-> TRUE, n |-> 0]
        ELSE [err |-> FALSE, n |-> IF s[1] = "-" THEN 0 - v ELSE v]

\* strconv.Atoi: an optional sign, then one or more decimal digits, nothing else.
Atoi(s) ==
    LET signed == Len(s) > 0 /\ s[1] \in {"+", "-"}
        rest == IF signed THEN Tail(s) ELSE s
        v == DigitsVal(rest)
    IN  IF Len(rest) = 0 \/ \E i \in 1..Len(rest) : rest[i] \notin Digits
        THEN [err |-> TRUE, n |-> 0]
        ELSE [err |-> FALSE, n |-> IF s[1] = "-" THEN 0 - v ELSE v]

\* json.NewDecoder(r.Body).Decode(&user): an error for bytes that are not JSON
\* and for a value of the wrong type; a missing key leaves the zero value.
Decode(b) ==
    IF ~b.wf \/ b.id.t = "str" \/ b.name.t = "num" \/ b.age.t = "str"
    THEN [err |-> TRUE, user |-> ZeroUser]
    ELSE [err |-> FALSE, user |-> User(b.id.n, b.name.s, b.age.n)]

\* A mutation of Invalid that forgets the id.
InvalidNoId(u) == u.Name = "" \/ u.Age = 0

\* A mutation of Invalid that forgets the age.
InvalidNoAge(u) == u.ID = 0 \/ u.Name = ""

\* The validation of createUser.
Invalid(u) == u.ID = 0 \/ u.Name = "" \/ u.Age = 0

\* json.Marshal(user): a struct of ints and a string always encodes.
Marshal(u) == [err |-> FALSE, j |-> Json(u)]

\* A mutation of Put that keeps the value of a key that is already bound.
PutIfAbsent(m, k, v) ==
    [x \in DOMAIN m \cup {k} |-> IF x \in DOMAIN m THEN m[x] ELSE v]

\* m[k] = v
Put(m, k, v) == [x \in DOMAIN m \cup {k} |-> IF x = k THEN v ELSE m[x]]

\* A mutation of Delete that also removes the keys below k.
DeleteUpTo(m, k) == [x \in {y \in DOMAIN m : y > k} |-> m[x]]

\* delete(m, k)
Delete(m, k) == [x \in DOMAIN m \ {k} |-> m[x]]

\* len(userCache)+1, the first key createUser writes
DerivedKey(m) == Cardinality(DOMAIN m) + 1

(***************************************************************************)
(* Data races.  The map is accessed at five places; getUser reads under    *)
(* RLock, createUser's first write and deleteUser's delete run under Lock, *)
(* deleteUser's existence check and createUser's second write take no      *)
(* lock.  Two goroutines that both stand at a map access, one of them a    *)
(* write, can execute the accesses at the same time.  The Go runtime then  *)
(* either detects it and throws a fatal error (the process exits), or does *)
(* not, and a read that overlaps the store of a value may copy some fields *)
(* of the old value and some of the new one.                               *)
(***************************************************************************)
ReadPcs == {"g_read", "d_check"}
WritePcs == {"c_write1", "c_write2", "d_delete"}
AccessPcs == ReadPcs \cup WritePcs

Conflicts(p) ==
    {q \in ProcSet \ {p} : pc[q] \in AccessPcs /\ (pc[p] \in WritePcs \/ pc[q] \in WritePcs)}

Torn(old, new) ==
    {User(a.ID, b.Name, c.Age) : a \in {old, new}, b \in {old, new}, c \in {old, new}}

\* What an access of goroutine p that is not a value read can come to.
AccessOutcomes(p) == IF Conflicts(p) = {} THEN {"ok"} ELSE {"ok", "fatal"}

\* user, ok := m[k] as goroutine p can observe it
ReadOutcomes(p, k) ==
    LET old == IF k \in DOMAIN userCache THEN userCache[k] ELSE ZeroUser
        writers == {q \in Conflicts(p) : pc[q] = "c_write2" /\ user[q].ID = k}
    IN  {[fatal |-> FALSE, ok |-> k \in DOMAIN userCache, user |-> old]}
        \cup (IF Conflicts(p) = {} THEN {}
              ELSE {[fatal |-> TRUE, ok |-> FALSE, user |-> ZeroUser]})
        \cup {[fatal |-> FALSE, ok |-> TRUE, user |-> u] :
                u \in UNION {Torn(old, user[q]) : q \in writers}}

(***************************************************************************)
(* RitualView (lib/ritual): a component that walks through the phases of   *)
(* RitualPhase, one step per tap or per auto-advance timer, and calls      *)
(* onComplete after the handoff that a tap in the last phase starts.  Its  *)
(* callbacks run one at a time on the event loop.  view is the state       *)
(* object; view.timers are the Timer objects it has created, in order: a   *)
(* timer fires once if it is still active, and never after cancel().  A    *)
(* Timer? field holds the index of a timer, or 0 for null.                 *)
(***************************************************************************)

\* The taps of one run.
MaxTaps == 5

\* enum RitualPhase
RitualPhase == {"greeting", "identity", "purpose", "invite", "completion"}

\* RitualPhaseCopy.autoAdvanceDelayMs: the delay as a set, empty for null.
autoAdvanceDelayMs(ph) ==
    CASE ph = "greeting" -> {900}
      [] ph = "identity" -> {1200}
      [] ph = "purpose" -> {1300}
      [] ph = "invite" -> {1100}
      [] ph = "completion" -> {}

\* RitualPhaseCopy.isTerminal
isTerminal(ph) == ph = "completion"

\* RitualPhaseCopy.next, "null" after the last phase
next(ph) ==
    CASE ph = "greeting" -> "identity"
      [] ph = "identity" -> "purpose"
      [] ph = "purpose" -> "invite"
      [] ph = "invite" -> "completion"
      [] ph = "completion" -> "null"

\* Timer(duration, callback): a new active timer.
Timer(kind) == [kind |-> kind, state |-> "active"]

\* timer?.cancel(): nothing for null, and nothing for a timer that has fired.
cancel(ts, t) ==
    IF t = 0 THEN ts
    ELSE [ts EXCEPT ![t].state = IF @ = "active" THEN "cancelled" ELSE @]

\* A mutation of _cancelAutoAdvanceTimer that drops the reference and leaves
\* the timer running.
cancelAutoAdvanceTimer_forget(v) == [v EXCEPT !.autoAdvanceTimer = 0]

\* _cancelAutoAdvanceTimer()
cancelAutoAdvanceTimer(v) ==
    [v EXCEPT !.timers = cancel(@, v.autoAdvanceTimer), !.autoAdvanceTimer = 0]

\* A mutation of _scheduleAutoAdvanceForCurrentPhase that arms a timer in the
\* terminal phase as well.
scheduleAutoAdvanceForEveryPhase(v) ==
    LET c == cancelAutoAdvanceTimer(v) IN
    IF c.handoffStarted THEN c
    ELSE [c EXCEPT !.timers = Append(@, Timer("auto")),
                   !.autoAdvanceTimer = Len(c.timers) + 1]

\* _scheduleAutoAdvanceForCurrentPhase()
scheduleAutoAdvanceForCurrentPhase(v) ==
    LET c == cancelAutoAdvanceTimer(v) IN
    IF c.handoffStarted THEN c
    ELSE IF isTerminal(c.phase) THEN c
    ELSE IF autoAdvanceDelayMs(c.phase) = {} THEN c
    ELSE [c EXCEPT !.timers = Append(@, Timer("auto")),
                   !.autoAdvanceTimer = Len(c.timers) + 1]

\* _beginHandoff()
beginHandoff(v) ==
    IF v.handoffStarted THEN v
    ELSE LET a == cancelAutoAdvanceTimer([v EXCEPT !.handoffStarted = TRUE])
             b == [a EXCEPT !.timers = cancel(@, a.handoffTimer)]
         IN  [b EXCEPT !.timers = Append(@, Timer("handoff")),
                       !.handoffTimer = Len(b.timers) + 1]

\* _advance(isManual: ...)
advance(v, isManual) ==
    IF v.handoffStarted THEN v
    ELSE LET a == IF isManual THEN [v EXCEPT !.hasInteracted = TRUE] ELSE v IN
         IF next(a.phase) = "null" THEN beginHandoff(a)
         ELSE scheduleAutoAdvanceForCurrentPhase(
                  [a EXCEPT !.phase = next(@), !.phaseTick = @ + 1])

\* _handleTap()
handleTap(v) ==
    IF v.handoffStarted THEN v
    ELSE advance(cancelAutoAdvanceTimer([v EXCEPT !.hasInteracted = TRUE]), TRUE)

\* The field initializers of _RitualViewState.
NewView ==
    [phase |-> "greeting", autoAdvanceTimer |-> 0, handoffTimer |-> 0, phaseTick |-> 0,
     hasInteracted |-> FALSE, handoffStarted |-> FALSE, onCompleteCalled |-> FALSE,
     mounted |-> TRUE, timers |-> <<>>]

\* initState(): the component is mounted and the first timer is armed.
initState == scheduleAutoAdvanceForCurrentPhase(NewView)

RitualStart ==
    /\ view = initState
    /\ completions = 0
    /\ taps = 0
    /\ tappedTerminal = FALSE

(***************************************************************************)
(* The worker pool demo (concurrency.go): workerPoolDemo starts numWorkers *)
(* workers, sends numJobs jobs on the buffered channel jobs and closes it, *)
(* starts a goroutine that waits for the workers and closes results, and   *)
(* collects the results until results is closed.                           *)
(***************************************************************************)

\* const numJobs and const numWorkers, 10 and 3 in the demo: the pool is
\* checked for fewer jobs and workers.
numJobs == 3
numWorkers == 2

Workers == 1..numWorkers

\* make(chan int, n): an open channel that holds nothing yet.
Chan == [buf |-> <<>>, closed |-> FALSE]

\* The state as workerPoolDemo is called.
PoolStart ==
    /\ jobs = Chan
    /\ results = Chan
    /\ wg = 0
    /\ mpc = "spawn"
    /\ mi = 1
    /\ wpc = [w \in Workers |-> "unstarted"]
    /\ wj = [w \in Workers |-> 0]
    /\ cpc = "unstarted"
    /\ collected = EmptyBag
    /\ taken = [j \in 1..numJobs |-> {}]
    /\ panicked = FALSE

(***************************************************************************)
(* Initial state: an empty map, a free mutex, no request dispatched.       *)
(***************************************************************************)
NoCtx == [keys |-> {}, running |-> {}, creates |-> {}]

Start ==
    /\ userCache = <<>>
    /\ CacheMutex = [writer |-> 0, readers |-> {}]
    /\ pc = [p \in ProcSet |-> "idle"]
    /\ req = [p \in ProcSet |-> NoRequest]
    /\ id = [p \in ProcSet |-> 0]
    /\ user = [p \in ProcSet |-> ZeroUser]
    /\ ok = [p \in ProcSet |-> FALSE]
    /\ resp = [p \in ProcSet |-> Response(0, NoText)]
    /\ crashed = FALSE
    /\ ops = [p \in ProcSet |-> {}]
    /\ served = 0
    /\ sent = {}
    /\ ctx = [p \in ProcSet |-> NoCtx]
    /\ recent = <<>>
    /\ idState = [i \in 1..MaxId |-> "never"]
    /\ RitualStart
    /\ PoolStart

Init == Start /\ budget = MaxReq

InFlight(p) == pc[p] \notin {"idle", "done"}

\* The ids of the Create requests that have passed validation and are in flight.
CreatesInFlight == {user[q].ID : q \in {q \in ProcSet : InFlight(q) /\ req[q].op = "POST"}}

\* The id a well-formed Create request carries, if any.
Carried(r) == IF r.op = "POST" /\ r.body \in {BodyOf(e) : e \in ValidEntities}
              THEN {r.body.id.n} ELSE {}

\* The server hands the request r to a new goroutine, p.  ctx records the
\* keys present at that moment, the requests in flight, and, from then on,
\* the ids of the Creates that run while p does.
Dispatch(p, r) ==
    /\ ~crashed
    /\ pc[p] = "idle"
    /\ \A q \in 1..(p - 1) : pc[q] # "idle"
    /\ served < budget
    /\ served' = served + 1
    /\ req' = [req EXCEPT ![p] = r]
    /\ sent' = sent \cup {e \in ValidEntities : r.op = "POST" /\ r.body = BodyOf(e)}
    /\ ctx' = [q \in ProcSet |->
                 IF q = p
                 THEN [keys |-> DOMAIN userCache,
                       running |-> {x \in ProcSet : InFlight(x)},
                       creates |-> CreatesInFlight \cup Carried(r)]
                 ELSE IF InFlight(q)
                 THEN [ctx[q] EXCEPT !.creates = @ \cup Carried(r)]
                 ELSE ctx[q]]
    /\ UNCHANGED <<budget, recent, idState, ritual, pool>>

At(p, l) == ~crashed /\ pc[p] = l
Goto(p, l) == pc' = [pc EXCEPT ![p] = l]
Did(p, o) == ops' = [ops EXCEPT ![p] = @ \cup {o}]
Fatal ==
    /\ crashed' = TRUE
    /\ UNCHANGED <<userCache, CacheMutex, pc, req, id, user, ok, resp, ops, hist, ritual, pool>>

\* http.Error(w, msg, code), then return
Error(p, msg, code) ==
    /\ resp' = [resp EXCEPT ![p] = Response(code, Text(msg))]
    /\ Goto(p, "done")

\* The handler has returned and the response is out: the goroutine ends.
Exit(p) ==
    /\ At(p, "done")
    /\ pc' = [pc EXCEPT ![p] = "idle"]
    /\ req' = [req EXCEPT ![p] = NoRequest]
    /\ id' = [id EXCEPT ![p] = 0]
    /\ user' = [user EXCEPT ![p] = ZeroUser]
    /\ ok' = [ok EXCEPT ![p] = FALSE]
    /\ resp' = [resp EXCEPT ![p] = Response(0, NoText)]
    /\ ops' = [ops EXCEPT ![p] = {}]
    /\ ctx' = [ctx EXCEPT ![p] = NoCtx]
    /\ UNCHANGED <<userCache, CacheMutex, crashed, budget, served, sent, ritual, pool>>

(***************************************************************************)
(* createUser                                                              *)
(***************************************************************************)

\* Decode the body and validate the fields; 400 and return on either failure.
createUser_decode(p) ==
    \E b \in Bodies :
        /\ Dispatch(p, Request("POST", <<>>, b))
        /\ LET d == Decode(b) IN
            IF d.err
            THEN Error(p, "decode error", 400) /\ UNCHANGED user
            ELSE IF Invalid(d.user)
            THEN Error(p, "Invalid/missing required fields", 400) /\ UNCHANGED user
            ELSE /\ user' = [user EXCEPT ![p] = d.user]
                 /\ Goto(p, "c_lock")
                 /\ UNCHANGED resp
        /\ UNCHANGED <<userCache, CacheMutex, id, ok, crashed, ops>>

\* CacheMutex.Lock()
createUser_Lock(p) ==
    /\ At(p, "c_lock")
    /\ CacheMutex.writer = 0 /\ CacheMutex.readers = {}
    /\ CacheMutex' = [CacheMutex EXCEPT !.writer = p]
    /\ Goto(p, "c_write1") /\ Did(p, "Lock")
    /\ UNCHANGED <<userCache, req, id, user, ok, resp, crashed, hist, ritual, pool>>

\* userCache[len(userCache)+1] = user
createUser_write1(p) ==
    /\ At(p, "c_write1")
    /\ \E out \in AccessOutcomes(p) :
        IF out = "fatal" THEN Fatal
        ELSE /\ userCache' = Put(userCache, DerivedKey(userCache), user[p])
             /\ Goto(p, "c_unlock") /\ Did(p, "write")
             /\ UNCHANGED <<CacheMutex, req, id, user, ok, resp, crashed, hist, ritual, pool>>

\* CacheMutex.Unlock()
createUser_Unlock(p) ==
    /\ At(p, "c_unlock")
    /\ CacheMutex' = [CacheMutex EXCEPT !.writer = 0]
    /\ Goto(p, "c_status") /\ Did(p, "Unlock")
    /\ UNCHANGED <<userCache, req, id, user, ok, resp, crashed, hist, ritual, pool>>

\* w.WriteHeader(http.StatusNoContent)
createUser_status(p) ==
    /\ At(p, "c_status")
    /\ resp' = [resp EXCEPT ![p].status = 204]
    /\ Goto(p, "c_write2")
    /\ UNCHANGED <<userCache, CacheMutex, req, id, user, ok, crashed, ops, hist, ritual, pool>>

\* A mutation of createUser_write2 that leaves the second write out.
createUser_write2_skipped(p) ==
    /\ At(p, "c_write2")
    /\ Goto(p, "done")
    /\ UNCHANGED <<userCache, CacheMutex, req, id, user, ok, resp, crashed, ops, hist, ritual, pool>>

\* userCache[user.ID] = user, with no lock held; then fmt.Fprintf(w, ...),
\* which writes nothing: net/http allows no body after a 204.
createUser_write2(p) ==
    /\ At(p, "c_write2")
    /\ \E out \in AccessOutcomes(p) :
        IF out = "fatal" THEN Fatal
        ELSE /\ userCache' = Put(userCache, user[p].ID, user[p])
             /\ Goto(p, "done") /\ Did(p, "write")
             /\ UNCHANGED <<CacheMutex, req, id, user, ok, resp, crashed, hist, ritual, pool>>

createUser(p) ==
    \/ createUser_decode(p)
    \/ createUser_Lock(p)
    \/ createUser_write1(p)
    \/ createUser_Unlock(p)
    \/ createUser_status(p)
    \/ createUser_write2(p)

(***************************************************************************)
(* getUser                                                                 *)
(***************************************************************************)

\* id, err := strconv.Atoi(r.PathValue("id")); 400 and return on an error.
getUser_parse(p) ==
    \E s \in Paths :
        /\ Dispatch(p, Request("GET", s, NoBody))
        /\ LET a == Atoi(s) IN
            IF a.err
            THEN Error(p, "invalid syntax", 400) /\ UNCHANGED id
            ELSE /\ id' = [id EXCEPT ![p] = a.n]
                 /\ Goto(p, "g_rlock")
                 /\ UNCHANGED resp
        /\ UNCHANGED <<userCache, CacheMutex, user, ok, crashed, ops>>

\* A mutation of getUser_RLock that takes the lock as sync.Mutex would: a
\* reader waits for the readers before it.
getUser_RLock_exclusive(p) ==
    /\ At(p, "g_rlock")
    /\ CacheMutex.writer = 0 /\ CacheMutex.readers = {}
    /\ CacheMutex' = [CacheMutex EXCEPT !.readers = @ \cup {p}]
    /\ Goto(p, "g_read") /\ Did(p, "RLock")
    /\ UNCHANGED <<userCache, req, id, user, ok, resp, crashed, hist, ritual, pool>>

\* CacheMutex.RLock(): granted whenever no writer holds the lock.  (The
\* library also holds new readers back while a writer waits; that only
\* removes behaviours.)
getUser_RLock(p) ==
    /\ At(p, "g_rlock")
    /\ CacheMutex.writer = 0
    /\ CacheMutex' = [CacheMutex EXCEPT !.readers = @ \cup {p}]
    /\ Goto(p, "g_read") /\ Did(p, "RLock")
    /\ UNCHANGED <<userCache, req, id, user, ok, resp, crashed, hist, ritual, pool>>

\* A mutation of getUser_read that binds the zero value under a key it looks
\* up and does not find, as the index operator of a C++ map does.
getUser_read_insert(p) ==
    /\ At(p, "g_read")
    /\ user' = [user EXCEPT ![p] = IF id[p] \in DOMAIN userCache THEN userCache[id[p]] ELSE ZeroUser]
    /\ ok' = [ok EXCEPT ![p] = id[p] \in DOMAIN userCache]
    /\ userCache' = IF id[p] \in DOMAIN userCache THEN userCache
                    ELSE Put(userCache, id[p], ZeroUser)
    /\ Goto(p, "g_runlock") /\ Did(p, "read")
    /\ UNCHANGED <<CacheMutex, req, id, resp, crashed, hist, ritual, pool>>

\* user, ok := userCache[id]
getUser_read(p) ==
    /\ At(p, "g_read")
    /\ \E out \in ReadOutcomes(p, id[p]) :
        IF out.fatal THEN Fatal
        ELSE /\ user' = [user EXCEPT ![p] = out.user]
             /\ ok' = [ok EXCEPT ![p] = out.ok]
             /\ Goto(p, "g_runlock") /\ Did(p, "read")
             /\ UNCHANGED <<userCache, CacheMutex, req, id, resp, crashed, hist, ritual, pool>>

\* CacheMutex.RUnlock()
getUser_RUnlock(p) ==
    /\ At(p, "g_runlock")
    /\ CacheMutex' = [CacheMutex EXCEPT !.readers = @ \ {p}]
    /\ Goto(p, "g_resp") /\ Did(p, "RUnlock")
    /\ UNCHANGED <<userCache, req, id, user, ok, resp, crashed, hist, ritual, pool>>

\* 404 if !ok; else the Content-Type header, json.Marshal (500 on an error),
\* WriteHeader(200) and Write(j).
getUser_respond(p) ==
    /\ At(p, "g_resp")
    /\ IF ~ok[p]
       THEN Error(p, "User not found", 404)
       ELSE LET m == Marshal(user[p]) IN
            IF m.err
            THEN Error(p, "User not found", 500)
            ELSE /\ resp' = [resp EXCEPT ![p] = Response(200, m.j)]
                 /\ Goto(p, "done")
    /\ UNCHANGED <<userCache, CacheMutex, req, id, user, ok, crashed, ops, hist, ritual, pool>>

getUser(p) ==
    \/ getUser_parse(p)
    \/ getUser_RLock(p)
    \/ getUser_read(p)
    \/ getUser_RUnlock(p)
    \/ getUser_respond(p)

(***************************************************************************)
(* deleteUser                                                              *)
(***************************************************************************)

\* id, err := strconv.Atoi(r.PathValue("id")); 400 and return on an error.
deleteUser_parse(p) ==
    \E s \in Paths :
        /\ Dispatch(p, Request("DELETE", s, NoBody))
        /\ LET a == Atoi(s) IN
            IF a.err
            THEN Error(p, "invalid syntax", 400) /\ UNCHANGED id
            ELSE /\ id' = [id EXCEPT ![p] = a.n]
                 /\ Goto(p, "d_check")
                 /\ UNCHANGED resp
        /\ UNCHANGED <<userCache, CacheMutex, user, ok, crashed, ops>>

\* if _, ok := userCache[id]; !ok { 404; return }, with no lock held
deleteUser_check(p) ==
    /\ At(p, "d_check")
    /\ \E out \in AccessOutcomes(p) :
        IF out = "fatal" THEN Fatal
        ELSE /\ ok' = [ok EXCEPT ![p] = id[p] \in DOMAIN userCache]
             /\ Did(p, "read")
             /\ IF id[p] \in DOMAIN userCache
                THEN Goto(p, "d_lock") /\ UNCHANGED resp
                ELSE Error(p, "User not found", 404)
             /\ UNCHANGED <<userCache, CacheMutex, req, id, user, crashed, hist, ritual, pool>>

\* CacheMutex.Lock()
deleteUser_Lock(p) ==
    /\ At(p, "d_lock")
    /\ CacheMutex.writer = 0 /\ CacheMutex.readers = {}
    /\ CacheMutex' = [CacheMutex EXCEPT !.writer = p]
    /\ Goto(p, "d_delete") /\ Did(p, "Lock")
    /\ UNCHANGED <<userCache, req, id, user, ok, resp, crashed, hist, ritual, pool>>

\* delete(userCache, id)
deleteUser_delete(p) ==
    /\ At(p, "d_delete")
    /\ \E out \in AccessOutcomes(p) :
        IF out = "fatal" THEN Fatal
        ELSE /\ userCache' = Delete(userCache, id[p])
             /\ Goto(p, "d_status") /\ Did(p, "write")
             /\ UNCHANGED <<CacheMutex, req, id, user, ok, resp, crashed, hist, ritual, pool>>

\* w.WriteHeader(http.StatusNoContent), the lock still held
deleteUser_status(p) ==
    /\ At(p, "d_status")
    /\ resp' = [resp EXCEPT ![p].status = 204]
    /\ Goto(p, "d_unlock")
    /\ UNCHANGED <<userCache, CacheMutex, req, id, user, ok, crashed, ops, hist, ritual, pool>>

\* the deferred CacheMutex.Unlock(), run as the handler returns
deleteUser_Unlock(p) ==
    /\ At(p, "d_unlock")
    /\ CacheMutex' = [CacheMutex EXCEPT !.writer = 0]
    /\ Goto(p, "done") /\ Did(p, "Unlock")
    /\ UNCHANGED <<userCache, req, id, user, ok, resp, crashed, hist, ritual, pool>>

deleteUser(p) ==
    \/ deleteUser_parse(p)
    \/ deleteUser_check(p)
    \/ deleteUser_Lock(p)
    \/ deleteUser_delete(p)
    \/ deleteUser_status(p)
    \/ deleteUser_Unlock(p)

(***************************************************************************)
(* Specifications                                                          *)
(***************************************************************************)

\* mux dispatches each request to its handler, in a goroutine per request.
Next ==
    \E p \in ProcSet :
        \/ createUser(p)
        \/ getUser(p)
        \/ deleteUser(p)
        \/ Exit(p) /\ UNCHANGED <<recent, idState>>

Spec == Init /\ [][Next]_vars

\* The next step of the handler that goroutine p is running.
Step(p) == pc[p] # "idle" /\ (createUser(p) \/ getUser(p) \/ deleteUser(p))

\* The scheduler lets every goroutine that can take a step take one; a
\* goroutine that waits for CacheMutex gets it once it is free for good.
FairSpec == Spec /\ \A p \in ProcSet : WF_vars(Step(p))

\* The entity of a Create request that was answered 204, as a set.
Created(p) ==
    {e \in ValidEntities : req[p].op = "POST" /\ resp[p].status = 204 /\ req[p].body = BodyOf(e)}

\* The id of a Delete request that was answered 204, as a set.
Deleted(p) ==
    {i \in 1..MaxId : req[p].op = "DELETE" /\ resp[p].status = 204 /\ req[p].path = <<Digit(i)>>}

\* The client has its response.  recent becomes the successful Creates that
\* came last with no other request after them (the last two are kept).
\* idState[i] is "created" once a Create request carrying the id i has
\* completed, "deleted" once a Delete of i was answered 204, whichever came
\* last, and "never" before both.
SeqExit(p) ==
    /\ Exit(p)
    /\ recent' = IF Created(p) = {} THEN <<>>
                 ELSE LET r == Append(recent, CHOOSE e \in Created(p) : TRUE)
                      IN  IF Len(r) > 2 THEN Tail(r) ELSE r
    /\ idState' = [i \in 1..MaxId |->
                     IF req[p].op = "POST" /\ req[p].body.id = Num(i) THEN "created"
                     ELSE IF i \in Deleted(p) THEN "deleted"
                     ELSE idState[i]]

\* A client that sends its requests one after the other: one goroutine at a time.
SeqNext == createUser(1) \/ getUser(1) \/ deleteUser(1) \/ SeqExit(1)

SeqInit == Start /\ budget = MaxSeq

SeqSpec == SeqInit /\ [][SeqNext]_vars

(***************************************************************************)
(* RitualView: the events                                                  *)
(***************************************************************************)

\* A click on the component, which is there while it is mounted: _handleTap().
Tap ==
    /\ view.mounted
    /\ taps < MaxTaps
    /\ view' = handleTap(view)
    /\ taps' = taps + 1
    /\ tappedTerminal' = (tappedTerminal \/ isTerminal(view.phase))
    /\ UNCHANGED <<completions, prog, hist, pool>>

\* The auto-advance timer t fires: if (!mounted) return; _advance(isManual: false).
AutoAdvanceTimerFires(t) ==
    /\ view.timers[t] = Timer("auto")
    /\ LET f == [view EXCEPT !.timers[t].state = "fired"] IN
         view' = IF ~f.mounted THEN f ELSE advance(f, FALSE)
    /\ UNCHANGED <<completions, taps, tappedTerminal, prog, hist, pool>>

\* The handoff timer t fires: if (!mounted) return; if (_onCompleteCalled)
\* return; _onCompleteCalled = true; component.onComplete().
HandoffTimerFires(t) ==
    /\ view.timers[t] = Timer("handoff")
    /\ LET f == [view EXCEPT !.timers[t].state = "fired"] IN
         IF ~f.mounted \/ f.onCompleteCalled
         THEN view' = f /\ UNCHANGED completions
         ELSE /\ view' = [f EXCEPT !.onCompleteCalled = TRUE]
              /\ completions' = completions + 1
    /\ UNCHANGED <<taps, tappedTerminal, prog, hist, pool>>

\* dispose(): the framework removes the component.
dispose ==
    /\ view.mounted
    /\ LET c == cancelAutoAdvanceTimer(view) IN
         view' = [c EXCEPT !.timers = cancel(@, c.handoffTimer), !.mounted = FALSE]
    /\ UNCHANGED <<completions, taps, tappedTerminal, prog, hist, pool>>

RitualNext ==
    \/ Tap
    \/ \E t \in 1..Len(view.timers) : AutoAdvanceTimerFires(t) \/ HandoffTimerFires(t)
    \/ dispose

RitualInit == Start /\ budget = 0

RitualSpec == RitualInit /\ [][RitualNext]_vars

(***************************************************************************)
(* The worker pool demo: the steps of its goroutines                       *)
(***************************************************************************)

\* for w := 1; w <= numWorkers; w++ { wg.Add(1); go worker(w, &wg, jobs, results) }
main_spawn ==
    /\ ~panicked /\ mpc = "spawn"
    /\ wg' = wg + 1
    /\ wpc' = [wpc EXCEPT ![mi] = "recv"]
    /\ IF mi = numWorkers THEN mpc' = "send" /\ mi' = 1
                          ELSE mpc' = mpc /\ mi' = mi + 1
    /\ UNCHANGED <<jobs, results, wj, cpc, collected, taken, panicked, prog, hist, ritual>>

\* for j := 1; j <= numJobs; j++ { jobs <- j }: a send waits for room.
main_send ==
    /\ ~panicked /\ mpc = "send"
    /\ Len(jobs.buf) < numJobs
    /\ jobs' = [jobs EXCEPT !.buf = Append(@, mi)]
    /\ IF mi = numJobs THEN mpc' = "close" /\ mi' = 0
                       ELSE mpc' = mpc /\ mi' = mi + 1
    /\ UNCHANGED <<results, wg, wpc, wj, cpc, collected, taken, panicked, prog, hist, ritual>>

\* close(jobs)
main_close ==
    /\ ~panicked /\ mpc = "close"
    /\ jobs' = [jobs EXCEPT !.closed = TRUE]
    /\ mpc' = "go"
    /\ UNCHANGED <<results, wg, mi, wpc, wj, cpc, collected, taken, panicked, prog, hist, ritual>>

\* go func() { wg.Wait(); close(results) }()
main_go ==
    /\ ~panicked /\ mpc = "go"
    /\ cpc' = "wait"
    /\ mpc' = "collect"
    /\ UNCHANGED <<jobs, results, wg, mi, wpc, wj, collected, taken, panicked, prog, hist, ritual>>

\* for r := range results { ... }: takes a result, ends once results is
\* closed and empty, waits otherwise.
main_collect ==
    /\ ~panicked /\ mpc = "collect"
    /\ IF results.buf # <<>>
       THEN /\ collected' = collected (+) SetToBag({Head(results.buf)})
            /\ results' = [results EXCEPT !.buf = Tail(@)]
            /\ mpc' = mpc
       ELSE /\ results.closed
            /\ mpc' = "end"
            /\ UNCHANGED <<results, collected>>
    /\ UNCHANGED <<jobs, wg, mi, wpc, wj, cpc, taken, panicked, prog, hist, ritual>>

\* A mutation of closer_Wait that does not wait for the workers.
closer_NoWait ==
    /\ ~panicked /\ cpc = "wait"
    /\ cpc' = "close"
    /\ UNCHANGED <<jobs, results, wg, mpc, mi, wpc, wj, collected, taken, panicked, prog, hist, ritual>>

\* wg.Wait(): returns once the counter is zero.
closer_Wait ==
    /\ ~panicked /\ cpc = "wait"
    /\ wg = 0
    /\ cpc' = "close"
    /\ UNCHANGED <<jobs, results, wg, mpc, mi, wpc, wj, collected, taken, panicked, prog, hist, ritual>>

\* close(results): closing a closed channel panics.
closer_close ==
    /\ ~panicked /\ cpc = "close"
    /\ IF results.closed
       THEN panicked' = TRUE /\ UNCHANGED results
       ELSE results' = [results EXCEPT !.closed = TRUE] /\ UNCHANGED panicked
    /\ cpc' = "done"
    /\ UNCHANGED <<jobs, wg, mpc, mi, wpc, wj, collected, taken, prog, hist, ritual>>

\* for j := range jobs: takes a job; once jobs is closed and empty the
\* worker returns and the deferred wg.Done() runs; waits otherwise.
worker_range(w) ==
    /\ ~panicked /\ wpc[w] = "recv"
    /\ IF jobs.buf # <<>>
       THEN /\ wj' = [wj EXCEPT ![w] = Head(jobs.buf)]
            /\ jobs' = [jobs EXCEPT !.buf = Tail(@)]
            /\ taken' = [taken EXCEPT ![Head(jobs.buf)] = @ \cup {w}]
            /\ wpc' = [wpc EXCEPT ![w] = "send"]
            /\ UNCHANGED wg
       ELSE /\ jobs.closed
            /\ wpc' = [wpc EXCEPT ![w] = "done"]
            /\ wg' = wg - 1
            /\ UNCHANGED <<jobs, wj, taken>>
    /\ UNCHANGED <<results, mpc, mi, cpc, collected, panicked, prog, hist, ritual>>

\* time.Sleep(time.Second); results <- j * 2: a send on a closed channel
\* panics, a send on a full one waits.
worker_send(w) ==
    /\ ~panicked /\ wpc[w] = "send"
    /\ IF results.closed
       THEN panicked' = TRUE /\ UNCHANGED <<results, wpc>>
       ELSE /\ Len(results.buf) < numJobs
            /\ results' = [results EXCEPT !.buf = Append(@, wj[w] * 2)]
            /\ wpc' = [wpc EXCEPT ![w] = "recv"]
            /\ UNCHANGED panicked
    /\ UNCHANGED <<jobs, wg, mpc, mi, wj, cpc, collected, taken, prog, hist, ritual>>

worker(w) == worker_range(w) \/ worker_send(w)

workerPoolDemo == main_spawn \/ main_send \/ main_close \/ main_go \/ main_collect

PoolNext ==
    \/ workerPoolDemo
    \/ closer_Wait
    \/ closer_close
    \/ \E w \in Workers : worker(w)

PoolInit == Start /\ budget = 0

\* The Go scheduler runs every goroutine that can run.
PoolSpec == PoolInit /\ [][PoolNext]_vars /\ WF_vars(PoolNext)

(***************************************************************************)
(* Properties                                                              *)
(***************************************************************************)

Done(p) == pc[p] = "done"

\* The integer a numeric path names.
PathId(s) == CHOOSE n \in 1..(MaxId + 1) : s \in {<<Digit(n)>>, <<"+", Digit(n)>>}

\* Goroutine p has answered a Get, or a Delete, of the id i.
Answered(p, op, i) ==
    Done(p) /\ req[p].op = op /\ req[p].path \in NumericPaths /\ PathId(req[p].path) = i

Last(q) == q[Len(q)]

\* C1.  Round trip: in a sequential run, a Get of e.id that directly follows
\* a Create of the valid entity e answered 204 is answered 200 with exactly e.
RoundTrip ==
    \A e \in ValidEntities :
        (recent # <<>> /\ Last(recent) = e /\ Answered(1, "GET", e.ID))
            => resp[1] = Response(200, Json(e))

RoundTripWitness ==
    recent # <<>> /\ Answered(1, "GET", Last(recent).ID) /\ resp[1].status = 200

\* C2.  Last write wins: in a sequential run, Create(a), Create(b) with
\* a.id = b.id and then Get(a.id) is answered 200 with exactly b, and the
\* second Create is answered 204 like the first.
LastWriteWins ==
    /\ \A a, b \in ValidEntities :
        (a.ID = b.ID /\ recent = <<a, b>> /\ Answered(1, "GET", a.ID))
            => resp[1] = Response(200, Json(b))
    /\ \A b \in ValidEntities :
        (recent # <<>> /\ Last(recent).ID = b.ID
            /\ Done(1) /\ req[1] = Request("POST", <<>>, BodyOf(b)))
            => resp[1].status = 204

LastWriteWinsWitness ==
    /\ Len(recent) = 2 /\ recent[1].ID = recent[2].ID /\ recent[1] # recent[2]
    /\ Answered(1, "GET", recent[1].ID) /\ resp[1].status = 200

\* C3.  The caller-supplied id is the sole key: every entry of the map is
\* stored under the id of the entity it holds, and every key is the id of a
\* Create request.
KeyIsId ==
    \A k \in DOMAIN userCache :
        userCache[k].ID = k /\ \E e \in sent : e.ID = k

\* C4.  In a sequential run, a Get of an id for which no Create has completed
\* since the start, or since the last successful Delete of that id, is
\* answered 404.
GetAbsentIsNotFound ==
    \A i \in 1..(MaxId + 1) :
        (Answered(1, "GET", i) /\ (i \in 1..MaxId => idState[i] # "created"))
            => resp[1].status = 404

\* C5.  In a sequential run, a Delete of a present id is answered 204, and a
\* later Delete of the same id, with no Create carrying that id in between,
\* is answered 404; the process survives both.
DeleteTwice ==
    /\ ~crashed
    /\ \A i \in 1..MaxId :
        /\ (Answered(1, "DELETE", i) /\ i \in ctx[1].keys) => resp[1].status = 204
        /\ (Answered(1, "DELETE", i) /\ idState[i] = "deleted") => resp[1].status = 404

\* Two requests that were in flight at the same time, p the later one.
Joined(p, q) == p # q /\ q \in ctx[p].running

\* C6.  Of two Deletes of the same present id that run concurrently, with no
\* Create for that id running concurrently, one is answered 204 and the
\* other 404.
DeleteOnce ==
    \A p, q \in ProcSet : \A i \in 1..MaxId :
        (Joined(p, q) /\ Answered(p, "DELETE", i) /\ Answered(q, "DELETE", i)
            /\ i \in ctx[p].keys /\ i \notin ctx[p].creates \cup ctx[q].creates)
            => {resp[p].status, resp[q].status} = {204, 404}

\* C7.  When every Create so far carried the id i, a Get of i is answered 404,
\* or 200 with the id, name and age of one of those Creates.
GetSeesOneCreate ==
    \A p \in ProcSet : \A i \in 1..MaxId :
        (Answered(p, "GET", i) /\ \A e \in sent : e.ID = i)
            => \/ resp[p].status = 404
               \/ \E e \in sent : resp[p] = Response(200, Json(e))

\* C8.  When N Creates with the ids 1..N, run on the empty store, are the
\* only requests and all have completed, the map binds each i of 1..N to
\* the entity created with the id i, and nothing else.
ConcurrentCreates ==
    LET S == {p \in ProcSet : pc[p] # "idle"}
        N == Cardinality(S)
    IN  (/\ served = N /\ N > 0
         /\ \A p \in S : Done(p) /\ Created(p) # {}
         /\ \A i \in 1..N : \E p \in S : \E e \in Created(p) : e.ID = i)
        => /\ DOMAIN userCache = 1..N
           /\ \A i \in 1..N : \E p \in S : userCache[i] \in Created(p)

\* C9.  A Create whose body does not decode, or whose id is 0, or whose name
\* is empty, or whose age is 0, is answered 400 at once: the handler takes no
\* lock and reads and writes no entry of the map.
CreateRejectsInvalid ==
    \A p \in ProcSet :
        (pc[p] # "idle" /\ req[p].op = "POST" /\ req[p].body \in BadBodies)
            => Done(p) /\ resp[p].status = 400 /\ ops[p] = {}

CreateRejectsInvalidWitness ==
    \E p \in ProcSet :
        /\ Done(p) /\ req[p] = Request("POST", <<>>, Body(Num(1), Str("Alice"), Num(0)))
        /\ resp[p].status = 400 /\ userCache # <<>>

\* C10.  A Get or a Delete whose path id is not a base-10 integer is answered
\* 400 at once: the handler takes no lock and makes no access to the map.
PathRejectsNonNumeric ==
    \A p \in ProcSet :
        (pc[p] # "idle" /\ req[p].op \in {"GET", "DELETE"} /\ req[p].path \in NonNumericPaths)
            => Done(p) /\ resp[p].status = 400 /\ ops[p] = {}

PathRejectsNonNumericWitness ==
    /\ \E p \in ProcSet : Done(p) /\ req[p] = Request("GET", <<"1", "a">>, NoBody)
                            /\ resp[p].status = 400
    /\ \E p \in ProcSet : Done(p) /\ req[p] = Request("DELETE", <<"a">>, NoBody)
                            /\ resp[p].status = 400
    /\ 1 \in DOMAIN userCache

\* A step of the handler of goroutine p, for a request of the method op.
StepOf(p, op) == pc'[p] # pc[p] /\ req'[p].op = op

\* The map m2 is the map m1 but for the binding of the key k.
SameButFor(m1, m2, k) ==
    /\ DOMAIN m2 \ {k} = DOMAIN m1 \ {k}
    /\ \A x \in DOMAIN m1 \ {k} : m2[x] = m1[x]

\* C11.  Frame of Delete, in a sequential run: a Delete whose id is absent from
\* the map is answered 404 and no step of it changes the map; a Delete whose
\* id is present changes the map in one step, which removes the binding of
\* the id and changes the binding of no other key.
DeleteFrame ==
    [][\A p \in ProcSet :
        StepOf(p, "DELETE") =>
            /\ (pc[p] = "d_check" /\ id[p] \notin DOMAIN userCache)
                  => (pc'[p] = "done" /\ resp'[p].status = 404)
            /\ (pc[p] = "d_check" /\ id[p] \in DOMAIN userCache) => resp'[p].status = 0
            /\ IF pc[p] = "d_delete"
               THEN id[p] \notin DOMAIN userCache' /\ SameButFor(userCache, userCache', id[p])
               ELSE userCache' = userCache]_vars

DeleteFrameWitness ==
    /\ Answered(1, "DELETE", 1) /\ resp[1].status = 404 /\ idState[1] = "deleted"
    /\ 2 \in DOMAIN userCache

\* C12.  Get never mutates state: no step of a Get, whatever its id and
\* whatever its answer (200, 400, 404), changes the map, in any interleaving
\* with the steps of other requests.
GetIsPure ==
    [][\A p \in ProcSet : StepOf(p, "GET") => userCache' = userCache]_vars

GetIsPureWitness ==
    \E p, q \in ProcSet :
        /\ Answered(p, "GET", MaxId + 1) /\ resp[p].status = 404 /\ "read" \in ops[p]
        /\ Done(q) /\ req[q].op = "GET" /\ resp[q].status = 200 /\ "read" \in ops[q]

\* C13.  Read concurrency: while no Create or Delete holds the lock or waits
\* for it, a Get that asks for the read lock gets it, however many other Gets
\* are inside their read-locked section, on the same id or on another.
ReadersShare ==
    \A p \in ProcSet :
        (/\ At(p, "g_rlock")
         /\ CacheMutex.writer = 0
         /\ \A q \in ProcSet : pc[q] \notin {"c_lock", "d_lock"})
            => ENABLED getUser_RLock(p)

ReadersShareWitness ==
    /\ CacheMutex.readers = ProcSet
    /\ \E p, q \in ProcSet : p # q /\ id[p] = id[q]

\* C14.  Frame of Create, in a sequential run: a Create of the entity e changes
\* the binding of the key e.id alone; every other key is bound after each of
\* its steps as it was before.
CreateFrame ==
    [][\A p \in ProcSet :
        StepOf(p, "POST") => SameButFor(userCache, userCache', user'[p].ID)]_vars

\* Goroutine p holds CacheMutex, as a writer or as a reader.
Holds(p) == CacheMutex.writer = p \/ p \in CacheMutex.readers

\* C15.  Every handler that is about to write the map (the inserts of Create,
\* the removal of Delete) holds the writer lock, so that no Get is inside its
\* read-locked section at that moment.
WritesHoldLock ==
    \A p \in ProcSet :
        (~crashed /\ pc[p] \in WritePcs)
            => CacheMutex.writer = p /\ CacheMutex.readers = {}

\* C16.  Every handler that is about to read the map (the lookup of Get, the
\* existence check of Delete, the size read of Create's first write) holds
\* the lock, shared or exclusive.
ReadsHoldLock ==
    \A p \in ProcSet :
        (~crashed /\ pc[p] \in ReadPcs \cup {"c_write1"}) => Holds(p)

\* C17.  Lock scope: a handler that is about to write its status or to
\* serialize its answer, or that has written its status, holds no lock.
LockScope ==
    \A p \in ProcSet :
        (pc[p] \in {"c_status", "g_resp", "d_status"} \/ resp[p].status # 0) => ~Holds(p)

\* C18.  A Create is one atomic store operation: it changes the map in one
\* step only, and holds the writer lock when it does.
CreateIsAtomic ==
    [][\A p \in ProcSet :
        (StepOf(p, "POST") /\ userCache' # userCache)
            => (CacheMutex.writer = p /\ "write" \notin ops[p])]_vars

\* C19.  Once a Create of e, the only request so far, has written its 204
\* status, the map binds e.id to e.
CreateVisibleAtStatus ==
    \A p \in ProcSet : \A e \in ValidEntities :
        (served = 1 /\ req[p] = Request("POST", <<>>, BodyOf(e)) /\ resp[p].status = 204)
            => (e.ID \in DOMAIN userCache /\ userCache[e.ID] = e)

\* C20.  In a sequential run, from the 204 answer of a Delete of the id i to
\* the next Create request carrying i, no entry of the map holds an entity
\* whose ID is i.
DeleteDestroys ==
    \A i \in 1..MaxId :
        (idState[i] = "deleted" /\ ~(req[1].op = "POST" /\ req[1].body.id = Num(i)))
            => \A k \in DOMAIN userCache : userCache[k].ID # i

\* C21.  Requests run to completion: under fair scheduling every request that
\* was dispatched is eventually answered, with one of the statuses 200, 204,
\* 400, 404 and 500, and whenever no request is in flight nobody holds the lock.
RunToCompletion ==
    /\ \A p \in ProcSet :
        (pc[p] # "idle") ~> (Done(p) /\ resp[p].status \in {200, 204, 400, 404, 500})
    /\ [](  (\A p \in ProcSet : ~InFlight(p))
             => (CacheMutex.writer = 0 /\ CacheMutex.readers = {}))

\* C22.  Key 0 is never stored: whatever the requests, their payloads and
\* their interleaving, the map has no entry under the key 0.
NoKeyZero == 0 \notin DOMAIN userCache

NoKeyZeroWitness ==
    /\ userCache # <<>>
    /\ \E p \in ProcSet :
        Done(p) /\ req[p] = Request("POST", <<>>, Body(Num(0), Str("X"), Num(5)))
    /\ \E p \in ProcSet :
        Done(p) /\ req[p] = Request("POST", <<>>, Body(Absent, Str("Alice"), Num(30)))

\* C23.  RitualView invokes onComplete at most once, and only after a tap was
\* received while the phase was the terminal phase, completion.
OnCompleteOnce ==
    /\ completions <= 1
    /\ completions > 0 => (tappedTerminal /\ view.onCompleteCalled /\ isTerminal(view.phase))

OnCompleteOnceWitness ==
    /\ completions = 1
    /\ \E t \in 1..Len(view.timers) : view.timers[t] = [kind |-> "auto", state |-> "fired"]
    /\ \E t \in 1..Len(view.timers) : view.timers[t] = [kind |-> "auto", state |-> "cancelled"]
    /\ ~view.mounted

\* The auto-advance timers that are pending.
PendingAuto(v) == {t \in 1..Len(v.timers) : v.timers[t] = Timer("auto")}

\* C24.  The phase of RitualView moves along greeting, identity, purpose,
\* invite, completion only, one step for each tap and each fired auto-advance
\* timer before the terminal phase; at most one auto-advance timer is pending,
\* a cancelled timer stays cancelled, and once the handoff has started the
\* phase and the tick counter change no more.
PhaseSteps ==
    /\ [](Cardinality(PendingAuto(view)) <= 1)
    /\ [][LET tapped == taps' = taps + 1
              fired == \E t \in PendingAuto(view) : view'.timers[t].state = "fired"
          IN  /\ view'.phase # view.phase
                    => (view'.phase = next(view.phase) /\ (tapped \/ fired))
              /\ view'.phaseTick # view.phaseTick
                    => (view'.phaseTick = view.phaseTick + 1 /\ view'.phase # view.phase)
              /\ ((tapped \/ fired) /\ ~isTerminal(view.phase))
                    => (view'.phase = next(view.phase) /\ view'.phaseTick = view.phaseTick + 1)
              /\ \A t \in 1..Len(view.timers) :
                    view.timers[t].state = "cancelled" => view'.timers[t].state = "cancelled"
              /\ view.handoffStarted
                    => (view'.phase = view.phase /\ view'.phaseTick = view.phaseTick)]_vars

PhaseStepsWitness ==
    /\ view.handoffStarted /\ view.phase = "completion" /\ view.phaseTick = 4
    /\ taps = MaxTaps
    /\ \E t \in 1..Len(view.timers) : view.timers[t] = [kind |-> "auto", state |-> "fired"]
    /\ \E t \in 1..Len(view.timers) : view.timers[t] = [kind |-> "auto", state |-> "cancelled"]

\* C25.  The worker pool demo terminates in every interleaving of its
\* goroutines: no goroutine panics (no send on a closed channel), every job is
\* taken by one worker only, results is closed only after every worker has
\* returned, and workerPoolDemo ends having collected exactly the numJobs
\* results j * 2, one for each job j.
PoolTerminates ==
    /\ <>[](mpc = "end" /\ cpc = "done" /\ \A w \in Workers : wpc[w] = "done")
    /\ [](~panicked)
    /\ [](\A j \in 1..numJobs : Cardinality(taken[j]) <= 1)
    /\ [](results.closed => \A w \in Workers : wpc[w] = "done")
    /\ [](mpc = "end" => /\ collected = SetToBag({j * 2 : j \in 1..numJobs})
                         /\ \A j \in 1..numJobs : Cardinality(taken[j]) = 1)

PoolTerminatesWitness ==
    /\ mpc = "end" /\ results.closed
    /\ BagCardinality(collected) = numJobs
    /\ \A w \in Workers : \E j \in 1..numJobs : taken[j] = {w}

====
